---- MODULE Spec2Model ----
(***************************************************************************)
(* Model of the Inspector finding notifier: lambda_handler                 *)
(* (sns_handler.py), call_llm_for_finding (call_llm.py) and the email      *)
(* builders (build_email.py).                                              *)
(*                                                                         *)
(* Python str values are TLA+ strings; a dict is a function whose domain   *)
(* is the set of keys present; a list is a sequence.  The two outbound     *)
(* calls (bedrock invoke_model, sns.publish) are split into the call and   *)
(* the service's answer, which the environment chooses.                    *)
(***************************************************************************)
EXTENDS Integers, Sequences, FiniteSets, TLC

VARIABLES
    SNS_TOPIC_ARN,  \* sns_handler.py:21, "" when the variable is unset or empty
    entry,          \* the function the caller invoked
    event,          \* the EventBridge event (a dict)
    context,        \* the Lambda context, or None
    pc,             \* position of the invocation
    llm_result,     \* what call_llm_for_finding returned
    subject,        \* local `subject` of lambda_handler
    message,        \* local `message` of lambda_handler
    bedrock_calls,  \* requests handed to bedrock_client.invoke_model
    bedrock_answer, \* what invoke_model did: raised, or returned a body
    sns_calls,      \* requests handed to sns.publish
    sns_answer,     \* what sns.publish did: raised, or returned a response
    result          \* what the invocation gave its caller

vars == <<SNS_TOPIC_ARN, entry, event, context, pc, llm_result, subject,
          message, bedrock_calls, bedrock_answer, sns_calls, sns_answer,
          result>>

-----------------------------------------------------------------------------
(* Bounds of the model                                                     *)

\* longest raw title drawn for a finding
MaxTitleLen == 82

\* length of the over-long severity value drawn for a finding
MaxSeverityLen == 90

\* longest title and description drawn for normalize_finding_for_llm
MaxLongTitleLen == 202
MaxDescriptionLen == 1002

-----------------------------------------------------------------------------
(* Python built-ins                                                        *)

\* dict.get(key, default)
Get(d, k, default) == IF k \in DOMAIN d THEN d[k] ELSE default

\* the empty dict {} (also stands for a None where the code only tests truth)
EmptyDict == [k \in {} |-> ""]

\* truth value of a dict: `not d` is Falsy(d)
Falsy(d) == DOMAIN d = {}

\* s[i], as a string of one character
Char(s, i) == SubSeq(s, i, i)

\* s * n
RECURSIVE Repeat(_, _)
Repeat(s, n) ==
    IF n <= 0 THEN ""
    ELSE IF n = 1 THEN s
    ELSE LET half == Repeat(s, n \div 2)
         IN  half \o half \o (IF n % 2 = 1 THEN s ELSE "")

\* s[:n]
Take(s, n) == SubSeq(s, 1, IF n < Len(s) THEN n ELSE Len(s))

\* the characters str.split() and str.strip() treat as whitespace
IsSpace(c) == c \in {" ", "\n", "\t"}

\* variant: nothing is stripped
Strip_Nothing(s) == s

\* s.strip(): from the first to the last character that is no whitespace
Strip(s) ==
    LET solid == {i \in 1..Len(s) : ~IsSpace(Char(s, i))}
    IN  IF solid = {} THEN ""
        ELSE SubSeq(s, CHOOSE i \in solid : \A j \in solid : i <= j,
                       CHOOSE i \in solid : \A j \in solid : j <= i)

\* s.split(): the maximal runs of non-whitespace characters, in order
Split(s) ==
    LET starts == {i \in 1..Len(s) :
                      /\ ~IsSpace(Char(s, i))
                      /\ i = 1 \/ IsSpace(Char(s, i - 1))}
        ends == {i \in 1..Len(s) :
                    /\ ~IsSpace(Char(s, i))
                    /\ i = Len(s) \/ IsSpace(Char(s, i + 1))}
        Nth(S, k) == CHOOSE x \in S : Cardinality({y \in S : y < x}) = k - 1
    IN  [k \in 1..Cardinality(starts) |-> SubSeq(s, Nth(starts, k), Nth(ends, k))]

\* sep.join(words[lo..hi])
RECURSIVE JoinRange(_, _, _, _)
JoinRange(sep, words, lo, hi) ==
    IF lo > hi THEN ""
    ELSE IF lo = hi THEN words[lo]
    ELSE LET mid == (lo + hi) \div 2
         IN  JoinRange(sep, words, lo, mid) \o sep
                 \o JoinRange(sep, words, mid + 1, hi)

\* sep.join(words)
Join(sep, words) == JoinRange(sep, words, 1, Len(words))

LowerCase == <<"a","b","c","d","e","f","g","h","i","j","k","l","m",
               "n","o","p","q","r","s","t","u","v","w","x","y","z">>
UpperCase == <<"A","B","C","D","E","F","G","H","I","J","K","L","M",
               "N","O","P","Q","R","S","T","U","V","W","X","Y","Z">>

UpperChar(c) ==
    IF \E i \in 1..26 : LowerCase[i] = c
    THEN UpperCase[CHOOSE i \in 1..26 : LowerCase[i] = c]
    ELSE c

\* s.upper()
Upper(s) == Join("", [i \in 1..Len(s) |-> UpperChar(Char(s, i))])

\* needle in s
Contains(s, needle) ==
    \E i \in 0..(Len(s) - Len(needle)) : SubSeq(s, i + 1, i + Len(needle)) = needle

StartsWith(s, p) == Len(p) <= Len(s) /\ SubSeq(s, 1, Len(p)) = p
EndsWith(s, p) == Len(p) <= Len(s) /\ SubSeq(s, Len(s) - Len(p) + 1, Len(s)) = p

-----------------------------------------------------------------------------
(* Exceptions                                                              *)

\* Python None, where a value is stored and not only tested for truth; no
\* string drawn as an input equals it.
None == "<None>"

Exc(type, msg) == [type |-> type, msg |-> msg]

\* isinstance(e, cls): json.JSONDecodeError and UnicodeDecodeError derive from
\* ValueError, and every exception here derives from Exception.
IsInstance(e, cls) ==
    \/ cls = "Exception"
    \/ e.type = cls
    \/ cls = "ValueError" /\ e.type \in {"JSONDecodeError", "UnicodeDecodeError"}

Ok(v) == [ok |-> TRUE, value |-> v]
Raise(e) == [ok |-> FALSE, exc |-> e]

-----------------------------------------------------------------------------
(* build_email.py                                                          *)

\* title[:77] + "..." if len(title) > 80 else title
ShortTitle(title) ==
    IF Len(title) > 80 THEN Take(title, 77) \o "..." ELSE title

\* build_email_subject(detail)
build_email_subject(detail) ==
    LET severity == Get(detail, "severity", "UNKNOWN")
        finding_type == Get(detail, "type", "UNKNOWN_TYPE")
        title == Join(" ", Split(Get(detail, "title", "Inspector Finding")))
    IN  "[Inspector] " \o severity \o " - " \o finding_type \o " - "
            \o ShortTitle(title)

\* variant: the test on the stripped response is inverted
GuidanceText_Inverted(llm) ==
    LET llm_response == Strip(Get(llm, "response", ""))
    IN  IF llm_response # ""
        THEN "No remediation recommendations available at this time."
        ELSE llm_response

\* llm_result.get("response", "").strip(), with its fallback
GuidanceText(llm) ==
    LET llm_response == Strip(Get(llm, "response", ""))
    IN  IF llm_response = ""
        THEN "No remediation recommendations available at this time."
        ELSE llm_response

\* build_email_body(event, llm_result).  The body is kept as the list `lines`
\* and the event whose JSON dump is its last line: "\n".join and json.dumps
\* are not applied, and the warning sign that opens the note line is left out.
build_email_body(ev, llm) ==
    LET account_id == Get(ev, "account", "UNKNOWN")
        region == Get(ev, "region", "UNKNOWN")
        detail == Get(ev, "detail", EmptyDict)
        severity == Get(detail, "severity", "UNKNOWN")
        status == Get(detail, "status", "UNKNOWN")
        title == Get(detail, "title", "N/A")
        description == Get(detail, "description", "N/A")
        finding_arn == Get(detail, "findingArn", "N/A")
        finding_type == Get(detail, "type", "N/A")
        remediation == Get(detail, "remediation", EmptyDict)
        recommendation == IF Falsy(remediation) THEN EmptyDict
                          ELSE Get(remediation, "recommendation", EmptyDict)
        recommendation_url == IF Falsy(recommendation) THEN "N/A"
                              ELSE Get(recommendation, "Url", "N/A")
        head == << "New Amazon Inspector Finding",
                   Repeat("=", 60),
                   "",
                   "Account: " \o account_id,
                   "Region: " \o region,
                   "",
                   "Severity: " \o severity,
                   "Status: " \o status,
                   "",
                   "Title: " \o title,
                   "Description: " \o description,
                   "",
                   "Finding ARN: " \o finding_arn,
                   "Finding Type: " \o finding_type >>
        url == IF recommendation_url # "N/A"
               THEN << "", "AWS Recommendation: " \o recommendation_url >>
               ELSE << >>
        tail == << "",
                   "AI-Generated Remediation Guidance:",
                   Repeat("-", 60),
                   GuidanceText(llm),
                   "",
                   "Note: AI recommendations should be validated before implementation.",
                   "",
                   "Raw Inspector Finding:",
                   Repeat("-", 60) >>
    IN  [lines |-> head \o url \o tail, raw_event |-> ev]

-----------------------------------------------------------------------------
(* call_llm.py                                                             *)

VALID_SEVERITIES ==
    {"CRITICAL", "HIGH", "MEDIUM", "LOW", "INFORMATIONAL", "UNTRIAGED"}

\* variant: the cut keeps one character too few (s[:n - 1])
LimitLength_OneShort(s, n) == IF Len(s) > n THEN Take(s, n - 1) ELSE s

\* if len(s) > n: s = s[:n]
LimitLength(s, n) == IF Len(s) > n THEN Take(s, n) ELSE s

\* normalize_finding_for_llm, lines 47-87: the finding built from a non-empty
\* `detail`
NormalizedFinding(detail) ==
    LET resources == Get(detail, "resources", << >>)
        primary_resource == IF resources # << >> THEN resources[1] ELSE EmptyDict
        pvd == Get(detail, "packageVulnerabilityDetails", EmptyDict)
        severity == Get(detail, "severity", "UNKNOWN")
        title == Get(detail, "title", "Unknown")
        description == Get(detail, "description", "N/A")
        resource_details == Get(primary_resource, "details", EmptyDict)
        aws_ec2_instance == Get(resource_details, "awsEc2Instance", EmptyDict)
        platform == Get(aws_ec2_instance, "platform", None)
        image_id == Get(aws_ec2_instance, "imageId", None)
    IN  [ vulnerability_id |-> Get(pvd, "vulnerabilityId", "N/A"),
          title |-> LimitLength(title, 200),
          description |-> LimitLength(description, 1000),
          severity |-> severity,
          inspector_score |-> Get(detail, "inspectorScore", None),
          resource_type |-> Get(primary_resource, "type", "Unknown"),
          platform |-> IF platform \in {None, ""} THEN "Unknown" ELSE platform,
          image_id |-> IF image_id \in {None, ""} THEN "N/A" ELSE image_id,
          first_observed_at |-> Get(detail, "firstObservedAt", None),
          last_observed_at |-> Get(detail, "lastObservedAt", None),
          updated_at |-> Get(detail, "updatedAt", None) ]

\* variant: the test `if not detail` is missing
normalize_finding_for_llm_NoDetailCheck(ev) ==
    Ok(NormalizedFinding(Get(ev, "detail", EmptyDict)))

\* normalize_finding_for_llm(event): Ok(finding) or Raise(ValueError)
normalize_finding_for_llm(ev) ==
    LET detail == Get(ev, "detail", EmptyDict)
    IN  IF Falsy(detail)
        THEN Raise(Exc("ValueError", "Missing 'detail' field in event"))
        ELSE Ok(NormalizedFinding(detail))

\* build_prompt_from_finding(finding): the sentence about the platform and the
\* finding that is dumped as JSON after the fixed instructions.
build_prompt_from_finding(finding) ==
    [ platform_info |->
          IF finding.platform # "Unknown"
          THEN " The EC2 instance is running " \o finding.platform \o "."
          ELSE "",
      finding |-> finding ]

\* JSON values, as json.loads returns them: a record whose one field names
\* the type
JNull == [null |-> TRUE]
JNum(n) == [number |-> n]
JStr(s) == [string |-> s]
JArr(a) == [array |-> a]
JObj(d) == [object |-> d]

JType(j) == CHOOSE t \in DOMAIN j : TRUE

\* `not j` for a JSON value
JFalsy(j) ==
    CASE JType(j) = "null" -> TRUE
      [] JType(j) = "number" -> j.number = 0
      [] JType(j) = "string" -> j.string = ""
      [] JType(j) = "array" -> j.array = << >>
      [] JType(j) = "object" -> DOMAIN j.object = {}

\* what the service's `response["body"].read().decode("utf-8")` and
\* json.loads(raw) give: Ok(data) or the exception raised
DecodeBody(body) ==
    IF ~body.utf8
    THEN Raise(Exc("UnicodeDecodeError",
                   "'utf-8' codec can't decode byte 0xff in position 0: invalid start byte"))
    ELSE IF ~body.json
    THEN Raise(Exc("JSONDecodeError", "Expecting value: line 1 column 1 (char 0)"))
    ELSE Ok(body.data)

\* call_llm_for_finding, lines 154-166: Ok(result) or the exception raised
ExtractRecommendation(data) ==
    IF JType(data) # "object"
    THEN Raise(Exc("AttributeError", "object has no attribute 'get'"))
    ELSE
    LET results == Get(data.object, "results", JArr(<< >>)) IN
    IF JFalsy(results)
    THEN Ok([response |-> "LLM generated no recommendations."])
    ELSE IF JType(results) = "object" THEN Raise(Exc("KeyError", "0"))
    ELSE IF JType(results) = "number"
    THEN Raise(Exc("TypeError", "object is not subscriptable"))
    ELSE
    LET first == IF JType(results) = "array" THEN results.array[1]
                 ELSE JStr(Take(results.string, 1)) IN
    IF JType(first) # "object"
    THEN Raise(Exc("AttributeError", "object has no attribute 'get'"))
    ELSE
    LET output_text == Get(first.object, "outputText", JStr("")) IN
    IF JFalsy(output_text)
    THEN Ok([response |-> "LLM generated no recommendations."])
    ELSE IF JType(output_text) # "string"
    THEN Raise(Exc("AttributeError", "object has no attribute 'strip'"))
    ELSE IF Strip(output_text.string) = ""
    THEN Ok([response |-> "LLM generated no recommendations."])
    ELSE Ok([response |-> Strip(output_text.string)])

\* variant: the clause for AWS errors re-raises after logging
LLMExcept_Reraise(e) ==
    IF IsInstance(e, "ValueError")
    THEN Ok([response |-> "Unable to process finding: " \o e.msg])
    ELSE IF IsInstance(e, "BotoCoreError") \/ IsInstance(e, "ClientError")
    THEN Raise(e)
    ELSE IF \/ IsInstance(e, "JSONDecodeError")
            \/ IsInstance(e, "KeyError")
            \/ IsInstance(e, "IndexError")
    THEN Ok([response |-> "Error processing LLM response."])
    ELSE Ok([response |-> "An unexpected error occurred generating recommendations."])

\* variant: the last clause, `except Exception`, is missing
LLMExcept_NoCatchAll(e) ==
    IF IsInstance(e, "ValueError")
    THEN Ok([response |-> "Unable to process finding: " \o e.msg])
    ELSE IF IsInstance(e, "BotoCoreError") \/ IsInstance(e, "ClientError")
    THEN Ok([response |-> "LLM service temporarily unavailable."])
    ELSE IF \/ IsInstance(e, "JSONDecodeError")
            \/ IsInstance(e, "KeyError")
            \/ IsInstance(e, "IndexError")
    THEN Ok([response |-> "Error processing LLM response."])
    ELSE Raise(e)

\* the except clauses of call_llm_for_finding, in the order written: each
\* returns a result, so the outcome is Ok(result)
LLMExcept(e) ==
    IF IsInstance(e, "ValueError")
    THEN Ok([response |-> "Unable to process finding: " \o e.msg])
    ELSE IF IsInstance(e, "BotoCoreError") \/ IsInstance(e, "ClientError")
    THEN Ok([response |-> "LLM service temporarily unavailable."])
    ELSE IF \/ IsInstance(e, "JSONDecodeError")
            \/ IsInstance(e, "KeyError")
            \/ IsInstance(e, "IndexError")
    THEN Ok([response |-> "Error processing LLM response."])
    ELSE Ok([response |-> "An unexpected error occurred generating recommendations."])

\* call_llm_for_finding from the service's answer on, lines 151-182: Ok(result),
\* or the exception that escapes
LLMOutcomeOf(answer) ==
    IF answer.kind = "raise" THEN LLMExcept(answer.exc)
    ELSE LET data == DecodeBody(answer.body) IN
         IF ~data.ok THEN LLMExcept(data.exc)
         ELSE LET r == ExtractRecommendation(data.value) IN
              IF r.ok THEN r ELSE LLMExcept(r.exc)

-----------------------------------------------------------------------------
(* sns_handler.py                                                          *)

SNS_SUBJECT_MAX_LENGTH == 100

\* the remaining time, in ms, below which lambda_handler gives up (line 95)
MinRemainingTimeMs == 30000

NoExc == Exc("", "")

\* how an invocation ends: a returned dict, or an exception that escapes
Returned(v) == [kind |-> "return", value |-> v, exc |-> NoExc]
Raised(e) == [kind |-> "raise", value |-> EmptyDict, exc |-> e]
NoResult == [kind |-> "none", value |-> EmptyDict, exc |-> NoExc]

\* {"statusCode": code, "body": json.dumps(body)}; the body is kept as the dict
Response(code, body) == Returned([statusCode |-> code, body |-> body])

\* if not SNS_TOPIC_ARN
ConfigMissing(topic) == topic = ""

\* variant: only an event that carries no source is taken for a foreign one
SourceMismatch_MissingOnly(ev) == "source" \notin DOMAIN ev

\* if event.get("source") != "aws.inspector2"
SourceMismatch(ev) == Get(ev, "source", None) # "aws.inspector2"

\* if event.get("detail-type") != "Inspector2 Finding"
TypeMismatch(ev) == Get(ev, "detail-type", None) # "Inspector2 Finding"

\* detail = event.get("detail")
Detail(ev) == Get(ev, "detail", EmptyDict)

\* variant: the test is inverted (`if detail:`)
DetailMissing_Inverted(ev) == ~Falsy(Detail(ev))

\* if not detail
DetailMissing(ev) == Falsy(Detail(ev))

\* status = detail.get("status", "").upper()
FindingStatus(detail) == Upper(Get(detail, "status", ""))

\* if status and status != "ACTIVE"
StatusFiltered(detail) ==
    FindingStatus(detail) # "" /\ FindingStatus(detail) # "ACTIVE"

\* if context: ... if remaining_time_ms < 30000
\* variant: the threshold itself counts as too little (<=)
InsufficientTime_Inclusive(ctx) ==
    ctx.present /\ ctx.remaining <= MinRemainingTimeMs

InsufficientTime(ctx) == ctx.present /\ ctx.remaining < MinRemainingTimeMs

\* variant: the clause `except RuntimeError` is missing
HandlerExcept_NoRuntimeClause(e) ==
    IF IsInstance(e, "TimeoutError")
    THEN Response(408, [error |-> "Request timeout"])
    ELSE IF IsInstance(e, "ClientError")
    THEN Raised(e)
    ELSE Response(500, [error |-> "Internal server error"])

\* the except clauses of lambda_handler, in the order written
HandlerExcept(e) ==
    IF IsInstance(e, "TimeoutError")
    THEN Response(408, [error |-> "Request timeout"])
    ELSE IF IsInstance(e, "ClientError")
    THEN Raised(e)
    ELSE IF IsInstance(e, "RuntimeError")
    THEN Response(500, [error |-> e.msg])
    ELSE Response(500, [error |-> "Internal server error"])

\* lambda_handler, lines 50-97: the result that ends the invocation, or
\* NoResult when every check passes
Preflight(topic, ev, ctx) ==
    IF ConfigMissing(topic)
    THEN HandlerExcept(Exc("RuntimeError",
                           "SNS_TOPIC_ARN environment variable is required"))
    ELSE IF SourceMismatch(ev)
    THEN Response(200, [message |-> "Ignored non-Inspector2 event"])
    ELSE IF TypeMismatch(ev)
    THEN Response(200, [message |-> "Ignored non-finding event"])
    ELSE IF DetailMissing(ev)
    THEN Response(400, [error |-> "Invalid event structure: missing detail"])
    ELSE IF StatusFiltered(Detail(ev))
    THEN Response(200, [message |-> "No notification for non-ACTIVE finding",
                        status |-> FindingStatus(Detail(ev))])
    ELSE IF InsufficientTime(ctx)
    THEN HandlerExcept(Exc("TimeoutError", "Lambda approaching timeout threshold"))
    ELSE NoResult

\* variant: an ellipsis is appended after the cut
TruncateSubject_WithEllipsis(subj) ==
    IF Len(subj) > SNS_SUBJECT_MAX_LENGTH
    THEN Take(subj, SNS_SUBJECT_MAX_LENGTH) \o "..."
    ELSE subj

\* if len(subject) > SNS_SUBJECT_MAX_LENGTH: subject = subject[:...]
TruncateSubject(subj) ==
    IF Len(subj) > SNS_SUBJECT_MAX_LENGTH
    THEN Take(subj, SNS_SUBJECT_MAX_LENGTH)
    ELSE subj

\* variant: detail["findingArn"] in place of detail.get("findingArn", "N/A")
Confirmation_StrictArn(response, detail) ==
    IF "findingArn" \in DOMAIN detail
    THEN Response(200, [message |-> "Notification sent successfully",
                        sns_message_id |-> Get(response, "MessageId", None),
                        finding_arn |-> detail["findingArn"]])
    ELSE HandlerExcept(Exc("KeyError", "'findingArn'"))

\* variant: the two identifiers are returned under each other's key
Confirmation_SwappedIds(response, detail) ==
    Response(200, [message |-> "Notification sent successfully",
                   sns_message_id |-> Get(detail, "findingArn", "N/A"),
                   finding_arn |-> Get(response, "MessageId", None)])

\* the confirmation returned after a successful publish, lines 121-133
Confirmation(response, detail) ==
    Response(200, [message |-> "Notification sent successfully",
                   sns_message_id |-> Get(response, "MessageId", None),
                   finding_arn |-> Get(detail, "findingArn", "N/A")])

-----------------------------------------------------------------------------
(* Inputs and the services' answers                                        *)

OptField(k, S) == {EmptyDict} \cup {k :> v : v \in S}

TopicArn == "arn:aws:sns:us-west-2:123456789012:inspector-findings"

TitleUnits == {"x", "abcdefghi ", "ab \n"}
TitleLens == {0, 1, 63, 64, 77, 80, 81, MaxTitleLen}
TitleSet == {Take(Repeat(u, MaxTitleLen), n) : u \in TitleUnits, n \in TitleLens}

SeveritySet == {"HIGH", Repeat("X", MaxSeverityLen)}
TypeSet == {"PACKAGE_VULNERABILITY"}
StatusSet == {"ACTIVE", "active", "Active", "CLOSED", "closed", "SUPPRESSED", ""}

\* the fields of a finding that the filters and the subject do not read
FullExtras ==
    [ description |-> "A flaw in the kernel allows privilege escalation.",
      findingArn |-> "arn:aws:inspector2:us-west-2:123456789012:finding/0a1b",
      inspectorScore |-> "7.8",
      firstObservedAt |-> "2024-01-01T00:00:00Z",
      lastObservedAt |-> "2024-01-02T00:00:00Z",
      updatedAt |-> "2024-01-02T00:00:00Z",
      remediation |-> [recommendation |-> [Url |-> "https://example.com/fix"]],
      resources |-> << [ type |-> "AWS_EC2_INSTANCE",
                         id |-> "i-0abc",
                         details |-> [awsEc2Instance |->
                                         [ platform |-> "AMAZON_LINUX_2",
                                           imageId |-> "ami-0abc" ]] ] >>,
      packageVulnerabilityDetails |-> [vulnerabilityId |-> "CVE-2024-0001"] ]

ExtrasSet == {EmptyDict, FullExtras}

\* findings that vary what the subject is built from
ContentDetails ==
    { ("status" :> "ACTIVE") @@ t @@ sev @@ ty @@ x :
        t \in OptField("title", TitleSet),
        sev \in OptField("severity", SeveritySet),
        ty \in OptField("type", TypeSet),
        x \in ExtrasSet }

\* findings that vary the status; the one with no field at all is the dict {}
StatusDetails ==
    { st @@ t @@ x :
        st \in OptField("status", StatusSet),
        t \in OptField("title", {"Kernel  privilege\nescalation"}),
        x \in ExtrasSet }

DetailSet == ContentDetails \cup StatusDetails

EventSet ==
    { [account |-> "123456789012", region |-> "us-west-2"] @@ src @@ dt @@ d :
        src \in OptField("source", {"aws.inspector2", "other.service"}),
        dt \in OptField("detail-type", {"Inspector2 Finding", "Inspector2 Scan"}),
        d \in OptField("detail", DetailSet) }

NoContext == [present |-> FALSE, remaining |-> 0]
ContextSet ==
    {NoContext} \cup
    {[present |-> TRUE, remaining |-> MinRemainingTimeMs + d] : d \in {-1, 0}}

OutputTexts == {"", " \n", "Patch the kernel.", "  Patch the kernel.\n"}

\* the JSON documents the model service answers with
ModelData ==
    { JNull,
      JArr(<< >>),
      JObj(EmptyDict),
      JObj([results |-> JNull]),
      JObj([results |-> JArr(<< >>)]),
      JObj([results |-> JObj([outputText |-> JStr("Patch the kernel.")])]),
      JObj([results |-> JArr(<< JStr("Patch the kernel.") >>)]),
      JObj([results |-> JStr("Patch the kernel.")]),
      JObj([results |-> JNum(5)]),
      JObj([results |-> JArr(<< JObj(EmptyDict) >>)]),
      JObj([results |-> JArr(<< JObj([outputText |-> JNull]) >>)]),
      JObj([results |-> JArr(<< JObj([outputText |-> JNum(5)]) >>)]) }
    \cup { JObj([results |-> JArr(<< JObj([outputText |-> JStr(t)]) >>)]) :
             t \in OutputTexts }

NoBody == [utf8 |-> FALSE, json |-> FALSE, data |-> JNull]
NoModelAnswer == [kind |-> "none", exc |-> NoExc, body |-> NoBody]
NoSnsAnswer == [kind |-> "none", exc |-> NoExc, response |-> EmptyDict]

\* what bedrock_client.invoke_model does: raise, or return a body
ModelAnswers ==
    { [kind |-> "raise", exc |-> Exc(t, "model service failure"),
       body |-> NoBody] :
        t \in {"ClientError", "BotoCoreError", "OSError"} }
    \cup { [kind |-> "body", exc |-> NoExc,
            body |-> [utf8 |-> FALSE, json |-> FALSE, data |-> JNull]],
           [kind |-> "body", exc |-> NoExc,
            body |-> [utf8 |-> TRUE, json |-> FALSE, data |-> JNull]] }
    \cup { [kind |-> "body", exc |-> NoExc,
            body |-> [utf8 |-> TRUE, json |-> TRUE, data |-> d]] : d \in ModelData }

\* what sns.publish does: raise, or return a response
SnsAnswers ==
    { [kind |-> "raise", exc |-> Exc(t, "messaging service failure"),
       response |-> EmptyDict] : t \in {"ClientError", "BotoCoreError"} }
    \cup { [kind |-> "return", exc |-> NoExc,
            response |-> [MessageId |-> "0f1e2d3c"]] }

-----------------------------------------------------------------------------
(* The invocation                                                          *)

Init ==
    /\ SNS_TOPIC_ARN \in {"", TopicArn}
    /\ entry = "lambda_handler"
    /\ event \in EventSet
    /\ context \in ContextSet
    /\ pc = "received"
    /\ llm_result = EmptyDict
    /\ subject = ""
    /\ message = [lines |-> << >>, raw_event |-> EmptyDict]
    /\ bedrock_calls = << >>
    /\ bedrock_answer = NoModelAnswer
    /\ sns_calls = << >>
    /\ sns_answer = NoSnsAnswer
    /\ result = NoResult

\* a caller that invokes call_llm_for_finding itself
InitLLM ==
    /\ SNS_TOPIC_ARN = TopicArn
    /\ entry = "call_llm_for_finding"
    /\ event \in EventSet
    /\ context = NoContext
    /\ pc = "enrich"
    /\ llm_result = EmptyDict
    /\ subject = ""
    /\ message = [lines |-> << >>, raw_event |-> EmptyDict]
    /\ bedrock_calls = << >>
    /\ bedrock_answer = NoModelAnswer
    /\ sns_calls = << >>
    /\ sns_answer = NoSnsAnswer
    /\ result = NoResult

\* lambda_handler, lines 43-97
Validate ==
    /\ pc = "received"
    /\ LET r == Preflight(SNS_TOPIC_ARN, event, context) IN
       IF r = NoResult
       THEN pc' = "enrich" /\ result' = result
       ELSE pc' = "done" /\ result' = r
    /\ UNCHANGED <<SNS_TOPIC_ARN, entry, event, context, llm_result, subject,
                   message, bedrock_calls, bedrock_answer, sns_calls,
                   sns_answer>>

\* call_llm_for_finding has an outcome: it returns to its caller
LLMReturns(outcome) ==
    IF entry = "call_llm_for_finding"
    THEN /\ pc' = "done"
         /\ llm_result' = IF outcome.ok THEN outcome.value ELSE llm_result
         /\ result' = IF outcome.ok THEN Returned(outcome.value)
                      ELSE Raised(outcome.exc)
    ELSE IF outcome.ok
    THEN pc' = "enriched" /\ llm_result' = outcome.value /\ result' = result
    ELSE /\ pc' = "done"
         /\ llm_result' = llm_result
         /\ result' = HandlerExcept(outcome.exc)

\* call_llm_for_finding, lines 129-149: normalize, build the prompt and call
\* the model service
LLMInvoke ==
    /\ pc = "enrich"
    /\ LET finding == normalize_finding_for_llm(event) IN
       IF finding.ok
       THEN /\ bedrock_calls' =
                   Append(bedrock_calls, build_prompt_from_finding(finding.value))
            /\ pc' = "invoke_model"
            /\ UNCHANGED <<llm_result, result>>
       ELSE /\ LLMReturns(LLMExcept(finding.exc))
            /\ UNCHANGED bedrock_calls
    /\ UNCHANGED <<SNS_TOPIC_ARN, entry, event, context, subject, message,
                   bedrock_answer, sns_calls, sns_answer>>

\* call_llm_for_finding, lines 151-182: the model service answers
LLMAnswer ==
    /\ pc = "invoke_model"
    /\ \E answer \in ModelAnswers :
          /\ bedrock_answer' = answer
          /\ LLMReturns(LLMOutcomeOf(answer))
    /\ UNCHANGED <<SNS_TOPIC_ARN, entry, event, context, subject, message,
                   bedrock_calls, sns_calls, sns_answer>>

\* lambda_handler, lines 103-106
BuildEmail ==
    /\ pc = "enriched"
    /\ subject' = build_email_subject(Detail(event))
    /\ message' = build_email_body(event, llm_result)
    /\ pc' = "formatted"
    /\ UNCHANGED <<SNS_TOPIC_ARN, entry, event, context, llm_result,
                   bedrock_calls, bedrock_answer, sns_calls, sns_answer, result>>

\* lambda_handler, lines 108-119: fit the subject and call sns.publish
PublishCall ==
    /\ pc = "formatted"
    /\ subject' = TruncateSubject(subject)
    /\ sns_calls' = Append(sns_calls, [TopicArn |-> SNS_TOPIC_ARN,
                                       Subject |-> subject',
                                       Message |-> message])
    /\ pc' = "publish"
    /\ UNCHANGED <<SNS_TOPIC_ARN, entry, event, context, llm_result, message,
                   bedrock_calls, bedrock_answer, sns_answer, result>>

\* lambda_handler, lines 121-158: the messaging service answers
PublishAnswer ==
    /\ pc = "publish"
    /\ \E answer \in SnsAnswers :
          /\ sns_answer' = answer
          /\ result' = IF answer.kind = "return"
                       THEN Confirmation(answer.response, Detail(event))
                       ELSE HandlerExcept(answer.exc)
    /\ pc' = "done"
    /\ UNCHANGED <<SNS_TOPIC_ARN, entry, event, context, llm_result, subject,
                   message, bedrock_calls, bedrock_answer, sns_calls>>

Next ==
    \/ Validate
    \/ LLMInvoke
    \/ LLMAnswer
    \/ BuildEmail
    \/ PublishCall
    \/ PublishAnswer

Spec == Init /\ [][Next]_vars

\* the events whose finding varies the status only
StatusEvents ==
    { ev \in EventSet : "detail" \in DOMAIN ev => ev["detail"] \in StatusDetails }

InitFair ==
    /\ SNS_TOPIC_ARN \in {"", TopicArn}
    /\ entry = "lambda_handler"
    /\ event \in StatusEvents
    /\ context \in ContextSet
    /\ pc = "received"
    /\ llm_result = EmptyDict
    /\ subject = ""
    /\ message = [lines |-> << >>, raw_event |-> EmptyDict]
    /\ bedrock_calls = << >>
    /\ bedrock_answer = NoModelAnswer
    /\ sns_calls = << >>
    /\ sns_answer = NoSnsAnswer
    /\ result = NoResult

\* the handler runs to its end: each statement is executed in turn, and each
\* external call returns or raises
FairSpec == InitFair /\ [][Next]_vars /\ WF_vars(Next)

NextLLM ==
    \/ LLMInvoke
    \/ LLMAnswer

SpecLLM == InitLLM /\ [][NextLLM]_vars

-----------------------------------------------------------------------------
(* normalize_finding_for_llm called on its own                             *)

ResourcesSet ==
    { << >>,
      << [id |-> "i-0abc"] >>,
      << [type |-> "AWS_EC2_INSTANCE", details |-> EmptyDict] >>,
      << [type |-> "AWS_EC2_INSTANCE", details |-> [awsEc2Instance |-> EmptyDict]] >>,
      << [type |-> "AWS_EC2_INSTANCE",
          details |-> [awsEc2Instance |-> [platform |-> "AMAZON_LINUX_2"]]] >>,
      << [type |-> "AWS_EC2_INSTANCE",
          details |-> [awsEc2Instance |-> [imageId |-> "ami-0abc"]]],
         [type |-> "AWS_ECR_CONTAINER_IMAGE"] >> }

Timestamps ==
    [ firstObservedAt |-> "2024-01-01T00:00:00Z",
      lastObservedAt |-> "2024-01-02T00:00:00Z",
      updatedAt |-> "2024-01-02T00:00:00Z" ]

\* findings with every combination of optional fields present or absent
SparseDetails ==
    { t @@ d @@ sev @@ r @@ pvd @@ ts :
        t \in OptField("title", {"Kernel flaw"}),
        d \in OptField("description", {"A flaw in the kernel."}),
        sev \in OptField("severity", {"HIGH"}),
        r \in OptField("resources", ResourcesSet),
        pvd \in OptField("packageVulnerabilityDetails",
                         {EmptyDict, [vulnerabilityId |-> "CVE-2024-0001"]}),
        ts \in {EmptyDict, Timestamps} }

LongTitleLens == {0, 199, 200, 201, MaxLongTitleLen}
LongDescriptionLens == {0, 999, 1000, 1001, MaxDescriptionLen}

\* findings with titles and descriptions around the two limits
LongDetails ==
    { ("title" :> Take(Repeat(u, MaxLongTitleLen), n))
          @@ ("description" :> Take(Repeat(v, MaxDescriptionLen), m)) :
        u \in {"abcdefghi ", "ab \n"}, n \in LongTitleLens,
        v \in {"0123456789abcdef "}, m \in LongDescriptionLens }

NormalizeEvents ==
    { [source |-> "aws.inspector2"] @@ d :
        d \in OptField("detail", SparseDetails \cup LongDetails) }

InitNormalize ==
    /\ SNS_TOPIC_ARN = TopicArn
    /\ entry = "normalize_finding_for_llm"
    /\ event \in NormalizeEvents
    /\ context = NoContext
    /\ pc = "normalize"
    /\ llm_result = EmptyDict
    /\ subject = ""
    /\ message = [lines |-> << >>, raw_event |-> EmptyDict]
    /\ bedrock_calls = << >>
    /\ bedrock_answer = NoModelAnswer
    /\ sns_calls = << >>
    /\ sns_answer = NoSnsAnswer
    /\ result = NoResult

\* normalize_finding_for_llm, lines 42-90
Normalize ==
    /\ pc = "normalize"
    /\ LET finding == normalize_finding_for_llm(event) IN
       result' = IF finding.ok THEN Returned(finding.value)
                 ELSE Raised(finding.exc)
    /\ pc' = "done"
    /\ UNCHANGED <<SNS_TOPIC_ARN, entry, event, context, llm_result, subject,
                   message, bedrock_calls, bedrock_answer, sns_calls,
                   sns_answer>>

SpecNormalize == InitNormalize /\ [][Normalize]_vars

-----------------------------------------------------------------------------
(* Outcomes, as the properties below read them                             *)

IgnoreMessages ==
    { "Ignored non-Inspector2 event",
      "Ignored non-finding event",
      "No notification for non-ACTIVE finding" }

ReturnedMessage(r) ==
    IF r.kind = "return" /\ "message" \in DOMAIN r.value.body
    THEN r.value.body.message ELSE None

ReturnedError(r) ==
    IF r.kind = "return" /\ "error" \in DOMAIN r.value.body
    THEN r.value.body.error ELSE None

IsIgnored(r) ==
    /\ r.kind = "return"
    /\ r.value.statusCode = 200
    /\ ReturnedMessage(r) \in IgnoreMessages

IsPublished(r) ==
    /\ r.kind = "return"
    /\ r.value.statusCode = 200
    /\ ReturnedMessage(r) = "Notification sent successfully"

NoOutboundCalls == bedrock_calls = << >> /\ sns_calls = << >>

Configured == SNS_TOPIC_ARN # ""

HasField(d, k, v) == k \in DOMAIN d /\ d[k] = v

ForeignSource == ~HasField(event, "source", "aws.inspector2")

ExpectedSourceAndType ==
    /\ HasField(event, "source", "aws.inspector2")
    /\ HasField(event, "detail-type", "Inspector2 Finding")

\* the line of the body under the "AI-Generated Remediation Guidance" heading
GuidanceSection(msg) ==
    LET i == CHOOSE j \in 1..Len(msg.lines) :
                 msg.lines[j] = "AI-Generated Remediation Guidance:"
    IN  msg.lines[i + 2]

-----------------------------------------------------------------------------
(* Properties                                                              *)

\* C1 (as stated): an event whose source is not "aws.inspector2" ends ignored
\* (statusCode 200) and neither invoke_model nor sns.publish is called.
C1_ForeignSourceIgnored ==
    ForeignSource =>
        /\ NoOutboundCalls
        /\ pc = "done" => IsIgnored(result)

\* C1 (amended): an event whose source is not "aws.inspector2" never causes a
\* call to invoke_model or sns.publish, and when SNS_TOPIC_ARN is configured it
\* ends ignored: statusCode 200, "Ignored non-Inspector2 event".
C1_ForeignSourceIgnoredWhenConfigured ==
    ForeignSource =>
        /\ NoOutboundCalls
        /\ pc \in {"received", "done"}
        /\ (pc = "done" /\ Configured) =>
              /\ IsIgnored(result)
              /\ ReturnedMessage(result) = "Ignored non-Inspector2 event"

\* C1 witness: a foreign-source event that would otherwise be processed (type
\* expected, finding ACTIVE) has ended ignored.
C1_Witness ==
    /\ pc = "done"
    /\ Configured
    /\ HasField(event, "source", "other.service")
    /\ HasField(event, "detail-type", "Inspector2 Finding")
    /\ HasField(Detail(event), "status", "ACTIVE")
    /\ IsIgnored(result)

\* C2: call_llm_for_finding lets no exception escape and returns a result whose
\* `response` is present and non-empty, for every event and every answer of the
\* model service.
C2_ResponseNeverEmpty ==
    (entry = "call_llm_for_finding" /\ pc = "done") =>
        /\ result.kind = "return"
        /\ "response" \in DOMAIN result.value
        /\ Len(result.value.response) > 0
        /\ result.value = llm_result

\* C2 witness: the service answered with JSON that is no result envelope, and
\* call_llm_for_finding returned the generic fallback.
C2_Witness ==
    /\ entry = "call_llm_for_finding"
    /\ pc = "done"
    /\ bedrock_answer.kind = "body"
    /\ bedrock_answer.body.json
    /\ result.kind = "return"
    /\ result.value.response =
           "An unexpected error occurred generating recommendations."

TransientModelFailure ==
    /\ bedrock_answer.kind = "raise"
    /\ bedrock_answer.exc.type \in {"ClientError", "BotoCoreError"}

FallbackPublished ==
    /\ Len(sns_calls) = 1
    /\ GuidanceSection(sns_calls[1].Message) = "LLM service temporarily unavailable."
    /\ Contains(GuidanceSection(sns_calls[1].Message), "temporarily unavailable")

\* C3 (as stated): after a transient failure of the model service the
\* invocation ends published, with one publish call whose body carries the
\* "temporarily unavailable" fallback, and no exception reaches the caller.
C3_TransientFailureStillPublished ==
    (TransientModelFailure /\ pc = "done") =>
        /\ FallbackPublished
        /\ IsPublished(result)
        /\ result.kind # "raise"

\* C3 (amended): after a transient failure of the model service
\* call_llm_for_finding returns the "temporarily unavailable" fallback, the
\* invocation goes on to call sns.publish exactly once with a body whose
\* recommendation section is that fallback, and it ends published, with no
\* exception, whenever that publish call succeeds.
C3_TransientFailureStillPublishes ==
    TransientModelFailure =>
        /\ llm_result = [response |-> "LLM service temporarily unavailable."]
        /\ pc \in {"enriched", "formatted", "publish", "done"}
        /\ pc \in {"publish", "done"} => FallbackPublished
        /\ (pc = "done" /\ sns_answer.kind = "return") =>
              IsPublished(result) /\ result.kind = "return"

\* C3 witness: the model service raised, and the invocation ended published
\* with the fallback in the body.
C3_Witness ==
    /\ TransientModelFailure
    /\ pc = "done"
    /\ FallbackPublished
    /\ IsPublished(result)

\* C4: a response body that cannot be parsed (not valid JSON) makes
\* call_llm_for_finding return "Error processing LLM response.".
C4_UnparsableBodyFallback ==
    ( /\ pc = "done"
      /\ entry = "call_llm_for_finding"
      /\ bedrock_answer.kind = "body"
      /\ bedrock_answer.body.utf8
      /\ ~bedrock_answer.body.json ) =>
        /\ result.kind = "return"
        /\ result.value.response = "Error processing LLM response."

\* C5: an event of the expected source and type whose detail.status is present
\* and differs from "ACTIVE", letter case ignored, ends ignored with no
\* outbound call; a status that is "ACTIVE" in any letter case is not ignored
\* by the status filter.  Stated for the invocations no other check ends:
\* SNS_TOPIC_ARN configured and enough time left.
C5_NonActiveIgnored ==
    ( /\ Configured
      /\ ~InsufficientTime(context)
      /\ ExpectedSourceAndType
      /\ "status" \in DOMAIN Detail(event) ) =>
        IF Upper(Detail(event)["status"]) # "ACTIVE"
        THEN NoOutboundCalls /\ (pc = "done" => IsIgnored(result))
        ELSE pc = "done" =>
                 ReturnedMessage(result) # "No notification for non-ACTIVE finding"

\* C6 (as stated): an event of the expected source and type with no `detail`
\* ends with statusCode 400 and error "Invalid event structure: missing
\* detail", and no outbound call is made.
C6_MissingDetailRejected ==
    (ExpectedSourceAndType /\ "detail" \notin DOMAIN event) =>
        /\ NoOutboundCalls
        /\ pc = "done" =>
              /\ result.kind = "return"
              /\ result.value.statusCode = 400
              /\ ReturnedError(result) = "Invalid event structure: missing detail"

\* C6 (amended): an event of the expected source and type with no `detail`
\* never causes an outbound call, and when SNS_TOPIC_ARN is configured it ends
\* with statusCode 400 and error "Invalid event structure: missing detail".
C6_MissingDetailRejectedWhenConfigured ==
    (ExpectedSourceAndType /\ "detail" \notin DOMAIN event) =>
        /\ NoOutboundCalls
        /\ pc \in {"received", "done"}
        /\ (pc = "done" /\ Configured) =>
              /\ result.kind = "return"
              /\ result.value.statusCode = 400
              /\ ReturnedError(result) = "Invalid event structure: missing detail"

\* C6 witness: such an event, with enough time left, has ended with the 400.
C6_Witness ==
    /\ pc = "done"
    /\ Configured
    /\ ExpectedSourceAndType
    /\ "detail" \notin DOMAIN event
    /\ ~InsufficientTime(context)
    /\ result.kind = "return"
    /\ result.value.statusCode = 400

\* C7: when sns.publish fails, whatever the failure, the invocation does not
\* end published and the failure propagates to the caller as an exception.
C7_PublishFailureSurfaced ==
    (pc = "done" /\ sns_answer.kind = "raise") =>
        /\ ~IsPublished(result)
        /\ result.kind = "raise"

\* C8: every subject handed to sns.publish is at most 100 characters long.
C8_PublishedSubjectWithinLimit ==
    \A i \in 1..Len(sns_calls) : Len(sns_calls[i].Subject) <= 100

\* C8 witness: build_email_subject returned more than 100 characters and the
\* subject handed to sns.publish has exactly 100.
C8_Witness ==
    /\ Len(sns_calls) = 1
    /\ Len(build_email_subject(Detail(event))) > 100
    /\ Len(sns_calls[1].Subject) = 100

KnownSeverity ==
    Get(Detail(event), "severity", "UNKNOWN") \in VALID_SEVERITIES \cup {"UNKNOWN"}

\* C9: the string build_email_subject returns is at most 100 characters long,
\* here for findings whose severity is a valid one or absent.
C9_BuiltSubjectWithinLimit ==
    (pc = "formatted" /\ KnownSeverity) => Len(subject) <= 100

SubjectPrefix ==
    "[Inspector] " \o Get(Detail(event), "severity", "UNKNOWN") \o " - "
        \o Get(Detail(event), "type", "UNKNOWN_TYPE") \o " - "

UntruncatedSubject ==
    SubjectPrefix
        \o Join(" ", Split(Get(Detail(event), "title", "Inspector Finding")))

\* C10: a dispatched subject shorter than the untruncated rendering keeps the
\* "[Inspector] {severity} - {type} - " prefix and ends with "...", here for
\* findings whose severity is a valid one or absent.
C10_ShortenedSubjectEndsWithEllipsis ==
    \A i \in 1..Len(sns_calls) :
        (KnownSeverity /\ Len(sns_calls[i].Subject) < Len(UntruncatedSubject)) =>
            /\ StartsWith(sns_calls[i].Subject, SubjectPrefix)
            /\ EndsWith(sns_calls[i].Subject, "...")

\* the first element of detail.resources, or {} when there is none
FirstResource ==
    LET r == Get(Detail(event), "resources", << >>)
    IN  IF Len(r) = 0 THEN EmptyDict ELSE r[1]

Ec2Instance ==
    Get(Get(FirstResource, "details", EmptyDict), "awsEc2Instance", EmptyDict)

\* the placeholders of a normalized finding for the fields `detail` lacks
DefaultsFilled(f) ==
    LET d == Detail(event) IN
    /\ f.title = (IF "title" \in DOMAIN d THEN f.title ELSE "Unknown")
    /\ f.description = (IF "description" \in DOMAIN d THEN f.description ELSE "N/A")
    /\ f.severity = (IF "severity" \in DOMAIN d THEN d["severity"] ELSE "UNKNOWN")
    /\ f.resource_type =
           (IF "type" \in DOMAIN FirstResource THEN FirstResource["type"]
            ELSE "Unknown")
    /\ f.platform =
           (IF "platform" \in DOMAIN Ec2Instance THEN Ec2Instance["platform"]
            ELSE "Unknown")
    /\ f.image_id =
           (IF "imageId" \in DOMAIN Ec2Instance THEN Ec2Instance["imageId"]
            ELSE "N/A")
    /\ f.vulnerability_id =
           (IF "vulnerabilityId"
                   \in DOMAIN Get(d, "packageVulnerabilityDetails", EmptyDict)
            THEN d["packageVulnerabilityDetails"]["vulnerabilityId"] ELSE "N/A")
    /\ f.first_observed_at =
           (IF "firstObservedAt" \in DOMAIN d THEN d["firstObservedAt"] ELSE None)
    /\ f.last_observed_at =
           (IF "lastObservedAt" \in DOMAIN d THEN d["lastObservedAt"] ELSE None)
    /\ f.updated_at = (IF "updatedAt" \in DOMAIN d THEN d["updatedAt"] ELSE None)
    /\ f.inspector_score =
           (IF "inspectorScore" \in DOMAIN d THEN d["inspectorScore"] ELSE None)

\* C14 (as stated): normalize_finding_for_llm raises only when `detail` is
\* absent, and then ValueError; whenever `detail` is present it returns a
\* finding with the default placeholders, whatever optional fields are absent.
C14_NormalizeFailsOnlyWithoutDetail ==
    (entry = "normalize_finding_for_llm" /\ pc = "done") =>
        IF "detail" \notin DOMAIN event
        THEN result.kind = "raise" /\ result.exc.type = "ValueError"
        ELSE result.kind = "return" /\ DefaultsFilled(result.value)

\* C14 (amended): normalize_finding_for_llm raises only when `detail` is absent
\* or empty (the dict {}), and then ValueError; whenever `detail` has at least
\* one field it returns a finding with the default placeholders, whatever
\* optional fields are absent.
C14_NormalizeFailsOnlyWithoutFields ==
    (entry = "normalize_finding_for_llm" /\ pc = "done") =>
        IF "detail" \notin DOMAIN event \/ DOMAIN event["detail"] = {}
        THEN result.kind = "raise" /\ result.exc.type = "ValueError"
        ELSE result.kind = "return" /\ DefaultsFilled(result.value)

\* C14 witness: a finding that carries nothing but an empty resource list was
\* normalized to the placeholders.
C14_Witness ==
    /\ entry = "normalize_finding_for_llm"
    /\ pc = "done"
    /\ DOMAIN Detail(event) = {"resources"}
    /\ Detail(event)["resources"] = << >>
    /\ result.kind = "return"
    /\ result.value.title = "Unknown"
    /\ result.value.platform = "Unknown"

\* s is exactly the first n characters of t
IsPrefixOfLength(s, t, n) ==
    /\ Len(s) = n
    /\ Len(t) >= n
    /\ \A i \in 1..n : Char(s, i) = Char(t, i)

\* C17: a title longer than 200 characters is normalized to exactly its first
\* 200 characters and a description longer than 1000 to exactly its first
\* 1000; shorter ones are copied unchanged.
C17_TitleAndDescriptionTruncated ==
    ( /\ entry = "normalize_finding_for_llm"
      /\ pc = "done"
      /\ result.kind = "return"
      /\ "title" \in DOMAIN Detail(event)
      /\ "description" \in DOMAIN Detail(event) ) =>
        LET title == Detail(event)["title"]
            description == Detail(event)["description"]
        IN  /\ IF Len(title) > 200
               THEN IsPrefixOfLength(result.value.title, title, 200)
               ELSE result.value.title = title
            /\ IF Len(description) > 1000
               THEN IsPrefixOfLength(result.value.description, description, 1000)
               ELSE result.value.description = description

\* C17 witness: a title of 201 and a description of 1001 characters were cut
\* to 200 and 1000.
C17_Witness ==
    /\ entry = "normalize_finding_for_llm"
    /\ pc = "done"
    /\ result.kind = "return"
    /\ Len(Get(Detail(event), "title", "")) = 201
    /\ Len(Get(Detail(event), "description", "")) = 1001
    /\ Len(result.value.title) = 200
    /\ Len(result.value.description) = 1000

\* the finding's status passes the status check: absent, or ACTIVE in any case
ActiveOrNoStatus ==
    \/ "status" \notin DOMAIN Detail(event)
    \/ Upper(Detail(event)["status"]) = "ACTIVE"

\* the event passes the configuration, source, type, structure and status checks
PassesFilters ==
    /\ Configured
    /\ ExpectedSourceAndType
    /\ "detail" \in DOMAIN event
    /\ DOMAIN event["detail"] # {}
    /\ ActiveOrNoStatus

\* C11: with SNS_TOPIC_ARN not configured every invocation, whatever the event
\* (one that would otherwise be ignored included), ends rejected with the
\* configuration error reported to the caller (statusCode 500 and the error
\* text naming SNS_TOPIC_ARN), and neither invoke_model nor sns.publish is
\* called.
C11_UnconfiguredRejected ==
    (entry = "lambda_handler" /\ ~Configured) =>
        /\ NoOutboundCalls
        /\ pc \in {"received", "done"}
        /\ pc = "done" =>
             /\ result.kind = "return"
             /\ result.value.statusCode = 500
             /\ ReturnedError(result) =
                    "SNS_TOPIC_ARN environment variable is required"

\* C11 witness: an unconfigured invocation with a foreign-source event ended
\* with the configuration error.
C11_Witness ==
    /\ pc = "done"
    /\ ~Configured
    /\ ForeignSource
    /\ result.kind = "return"
    /\ result.value.statusCode = 500
    /\ NoOutboundCalls

\* C12: for an event that passed the configuration, source, type, structure
\* and status checks, a known remaining time below 30000 ms ends the invocation
\* rejected with the timeout report (statusCode 408) and no outbound call; an
\* unknown remaining time (no context) or one of 30000 ms or more lets the
\* invocation proceed to the enrichment call.
C12_DeadlineCheck ==
    (entry = "lambda_handler" /\ PassesFilters) =>
        IF context.present /\ context.remaining < 30000
        THEN /\ NoOutboundCalls
             /\ pc \in {"received", "done"}
             /\ pc = "done" =>
                  /\ result.kind = "return"
                  /\ result.value.statusCode = 408
                  /\ ReturnedError(result) = "Request timeout"
        ELSE /\ pc = "enrich" => result = NoResult
             /\ pc \notin {"received", "enrich"} => Len(bedrock_calls) = 1
             /\ pc = "done" =>
                  ~(result.kind = "return" /\ result.value.statusCode = 408)

\* C12 witness: with exactly 30000 ms left the enrichment call was made, and
\* the invocation ended.
C12_Witness ==
    /\ pc = "done"
    /\ PassesFilters
    /\ context.present
    /\ context.remaining = 30000
    /\ Len(bedrock_calls) = 1

\* the text of the first candidate in the model service's answer, None when the
\* answer has none
FirstCandidateText ==
    LET b == bedrock_answer.body IN
    IF /\ bedrock_answer.kind = "body"
       /\ b.utf8
       /\ b.json
       /\ JType(b.data) = "object"
       /\ "results" \in DOMAIN b.data.object
       /\ JType(b.data.object["results"]) = "array"
       /\ Len(b.data.object["results"].array) > 0
       /\ JType(b.data.object["results"].array[1]) = "object"
       /\ "outputText" \in DOMAIN b.data.object["results"].array[1].object
       /\ JType(b.data.object["results"].array[1].object["outputText"]) = "string"
    THEN b.data.object["results"].array[1].object["outputText"].string
    ELSE None

IsBlank(t) == \A i \in 1..Len(t) : IsSpace(Char(t, i))

\* the model service returned a text that is not empty or blank
ModelGaveText == FirstCandidateText # None /\ ~IsBlank(FirstCandidateText)

SufficientTime == ~context.present \/ context.remaining >= 30000

\* the published notification and its confirmation, for the generated text
PublishedWithGuidance ==
    /\ IsPublished(result)
    /\ Len(sns_calls) = 1
    /\ GuidanceSection(sns_calls[1].Message) = Strip(FirstCandidateText)
    /\ "severity" \in DOMAIN Detail(event) =>
           Contains(sns_calls[1].Subject, Detail(event)["severity"])
    /\ "type" \in DOMAIN Detail(event) =>
           Contains(sns_calls[1].Subject, Detail(event)["type"])
    /\ result.value.body.sns_message_id = sns_answer.response["MessageId"]
    /\ result.value.body.finding_arn =
           (IF "findingArn" \in DOMAIN Detail(event)
            THEN Detail(event)["findingArn"] ELSE "N/A")

NoCandidate ==
    LET b == bedrock_answer.body IN
    /\ bedrock_answer.kind = "body"
    /\ b.utf8
    /\ b.json
    /\ JType(b.data) = "object"
    /\ \/ "results" \notin DOMAIN b.data.object
       \/ b.data.object["results"] = JArr(<< >>)

\* the first candidate's text is empty or whitespace only
BlankCandidate == FirstCandidateText # None /\ IsBlank(FirstCandidateText)

\* C15: when the model service answers with no candidate (empty or missing
\* `results`), or the first candidate's text is empty or whitespace only,
\* call_llm_for_finding returns the response "LLM generated no
\* recommendations." and never the empty or whitespace text itself.
C15_NoCandidateFallback ==
    (pc = "done" /\ entry = "call_llm_for_finding"
        /\ (NoCandidate \/ BlankCandidate)) =>
        /\ result.kind = "return"
        /\ result.value = [response |-> "LLM generated no recommendations."]
        /\ result.value.response # FirstCandidateText

\* C15 witness: the first candidate's text was whitespace only and the
\* fallback sentence was returned.
C15_Witness ==
    /\ pc = "done"
    /\ entry = "call_llm_for_finding"
    /\ BlankCandidate
    /\ FirstCandidateText # ""
    /\ result.kind = "return"
    /\ result.value.response = "LLM generated no recommendations."

\* the finding has a status that is not ACTIVE, letter case ignored
NonActiveStatus ==
    /\ "status" \in DOMAIN Detail(event)
    /\ Upper(Detail(event)["status"]) # "ACTIVE"

WrongDetailType == ~HasField(event, "detail-type", "Inspector2 Finding")

\* C16: an event of the expected source whose detail-type is not "Inspector2
\* Finding" ends ignored; and each ignore condition (wrong source, wrong
\* detail-type, non-ACTIVE status) ends in a returned ignored outcome, with no
\* error raised or reported and no outbound call.  Stated for the invocations
\* with SNS_TOPIC_ARN configured, and for the status condition on events of
\* the expected source and type.
C16_IgnoreConditionsEndIgnored ==
    ( /\ Configured
      /\ \/ ForeignSource
         \/ WrongDetailType
         \/ NonActiveStatus ) =>
        /\ NoOutboundCalls
        /\ pc \in {"received", "done"}
        /\ pc = "done" => IsIgnored(result) /\ ReturnedError(result) = None

\* the first pre-flight check, in the order configuration, source,
\* detail-type, structure, status, deadline, that the invocation fails
FirstFailingCheck ==
    IF ~Configured THEN "configuration"
    ELSE IF ForeignSource THEN "source"
    ELSE IF WrongDetailType THEN "detail-type"
    ELSE IF "detail" \notin DOMAIN event \/ DOMAIN event["detail"] = {}
    THEN "structure"
    ELSE IF NonActiveStatus THEN "status"
    ELSE IF ~SufficientTime THEN "deadline"
    ELSE "none"

\* the pre-flight check whose terminal outcome r is
EndedBy(r) ==
    IF r.kind # "return" THEN "none"
    ELSE IF ReturnedError(r) = "SNS_TOPIC_ARN environment variable is required"
    THEN "configuration"
    ELSE IF ReturnedMessage(r) = "Ignored non-Inspector2 event" THEN "source"
    ELSE IF ReturnedMessage(r) = "Ignored non-finding event" THEN "detail-type"
    ELSE IF r.value.statusCode = 400 THEN "structure"
    ELSE IF ReturnedMessage(r) = "No notification for non-ACTIVE finding"
    THEN "status"
    ELSE IF r.value.statusCode = 408 THEN "deadline"
    ELSE "none"

\* C18: the pre-flight checks run in the order configuration, source,
\* detail-type, structure, status, deadline, and the invocation ends with the
\* outcome of the first check that fails, before any outbound call: a
\* wrong-source event without detail is ignored, a detail-less event short of
\* time gets the structural rejection, a non-ACTIVE finding short of time is
\* ignored; when no check fails the invocation goes on to the enrichment.
C18_FirstFailingCheckDecides ==
    (entry = "lambda_handler" /\ pc # "received") =>
        IF FirstFailingCheck = "none"
        THEN Len(bedrock_calls) = 1 \/ pc = "enrich"
        ELSE /\ pc = "done"
             /\ EndedBy(result) = FirstFailingCheck
             /\ NoOutboundCalls

\* C19: in one invocation the model service is invoked at most once and
\* sns.publish is called at most once; publish is called only after
\* call_llm_for_finding has returned, with a body that holds that result's
\* response text; and the model service is never invoked once the publish call
\* has been made.
C19_CallsOnceInSequence ==
    /\ [](/\ Len(bedrock_calls) <= 1
          /\ Len(sns_calls) <= 1
          /\ sns_calls # << >> =>
               /\ "response" \in DOMAIN llm_result
               /\ GuidanceSection(sns_calls[1].Message) = llm_result["response"])
    /\ [][sns_calls' # sns_calls =>
              "response" \in DOMAIN llm_result /\ llm_result' = llm_result]_vars
    /\ [][sns_calls # << >> => bedrock_calls' = bedrock_calls]_vars

\* C19 witness: one model invocation and then one publish call were made, and
\* the invocation ended published.
C19_Witness ==
    /\ pc = "done"
    /\ Len(bedrock_calls) = 1
    /\ Len(sns_calls) = 1
    /\ bedrock_answer.kind = "body"
    /\ IsPublished(result)

\* the rejected outcome: an error status returned, or an exception raised
IsRejected(r) ==
    \/ r.kind = "raise"
    \/ r.kind = "return" /\ r.value.statusCode >= 400

ExactlyOneOutcome(r) ==
    \/ IsIgnored(r) /\ ~IsRejected(r) /\ ~IsPublished(r)
    \/ ~IsIgnored(r) /\ IsRejected(r) /\ ~IsPublished(r)
    \/ ~IsIgnored(r) /\ ~IsRejected(r) /\ IsPublished(r)

\* C20: every invocation whose external calls each return or fail ends, in
\* exactly one of the outcomes ignored, rejected, published; the outcome is
\* published exactly when a publish call succeeded; and once sns.publish has
\* returned successfully the handler returns the published confirmation,
\* never a rejection or an exception.
C20_OneTerminalOutcome ==
    /\ <>(pc = "done")
    /\ [][pc = "done" => result' = result]_vars
    /\ [](pc = "done" =>
            /\ ExactlyOneOutcome(result)
            /\ IsPublished(result) <=> sns_answer.kind = "return")
    /\ [](sns_answer.kind = "return" => pc = "done" /\ IsPublished(result))

\* C20 witness: sns.publish returned for a finding without findingArn and the
\* invocation ended published.
C20_Witness ==
    /\ pc = "done"
    /\ sns_answer.kind = "return"
    /\ "findingArn" \notin DOMAIN Detail(event)
    /\ IsPublished(result)
    /\ ~IsRejected(result)

====
